---------------------------- MODULE Spec2Model ----------------------------
(***************************************************************************)
(* A model of OrchestrAI: ConversationHistory, AgentManager and the Agent  *)
(* request / decide / act loop (send, parse_response, process_actions,     *)
(* run_conversation) with nested delegation on an explicit call stack.     *)
(*                                                                         *)
(* Python values are represented as follows.                               *)
(*   None            the string NONE (for Optional[str]) or 0 (for an      *)
(*                   Optional[Agent]); an Optional[ToolModel] is a         *)
(*                   sequence of length 0 or 1                             *)
(*   dict            a sequence of <<key, value>> pairs in insertion order *)
(*   Agent object    an identity 1, 2,... indexing the variable agents     *)
(*   JSON text       the value it parses to, tagged with its JSON type     *)
(*   verbose         False (the constructor's default) for every agent     *)
(***************************************************************************)
EXTENDS Naturals, Sequences, FiniteSets, TLC

VARIABLES
    agents,     \* Agent objects: identity -> fields of the object
    manager,    \* AgentManager._agents
    messages,   \* a free-standing ConversationHistory.messages
    stack,      \* the call stack of run_conversation frames, innermost last
    last_call,  \* the last call made from outside and how it ended
    nreq,       \* model requests issued so far
    lookups,    \* manager.get calls made by process_actions so far
    calls,      \* tool invocations so far, in order
    returned,   \* the last run_conversation that returned: its frame and value
    response    \* the reply to the last model request: <<reply>>, or <<>> for none

loopVars == <<stack, nreq, lookups, calls, returned, response>>

vars == <<agents, manager, messages, last_call, loopVars>>

----------------------------------------------------------------------------
(* Bounds of the model *)

MaxAgents == 3
MaxMessages == 4
MaxRequests == 3
MaxBatch == 2

NONE == "None"

----------------------------------------------------------------------------
(* ConversationHistory *)

SystemIndexes(msgs, role) == {i \in 1..Len(msgs) : msgs[i].role = role}

FirstWithRole(msgs, role) ==
    CHOOSE i \in SystemIndexes(msgs, role) :
        \A j \in SystemIndexes(msgs, role) : i <= j

\* the mutant appends a second message instead of replacing the first one
update_or_add_append(msgs, role, content) ==
    Append(msgs, [role |-> role, content |-> content])

\* the mutant overwrites the first message whatever its role
update_or_add_first(msgs, role, content) ==
    IF msgs # <<>>
    THEN [msgs EXCEPT ![1] = [role |-> role, content |-> content]]
    ELSE <<[role |-> role, content |-> content]>>

\* ConversationHistory._update_or_add
update_or_add(msgs, role, content) ==
    IF SystemIndexes(msgs, role) # {}
    THEN [msgs EXCEPT ![FirstWithRole(msgs, role)].content = content]
    ELSE <<[role |-> role, content |-> content]>> \o msgs

add_system(msgs, content) == update_or_add(msgs, "system", content)

update_system(msgs, content) == update_or_add(msgs, "system", content)

add_user(msgs, content) == Append(msgs, [role |-> "user", content |-> content])

add_assistant(msgs, content) ==
    Append(msgs, [role |-> "assistant", content |-> content])

add_function(msgs, content, name) ==
    Append(msgs, [role |-> "function", content |-> content, name |-> name])

\* ConversationHistory.__init__: an empty or missing system message adds nothing
ConversationHistory(system_message) ==
    IF system_message # NONE /\ system_message # ""
    THEN update_or_add(<<>>, "system", system_message)
    ELSE <<>>

----------------------------------------------------------------------------
(* AgentManager: _agents is a dict from names to Agent objects *)

Keys(d) == {d[i][1] : i \in 1..Len(d)}

Values(d) == [i \in 1..Len(d) |-> d[i][2]]

KeyIndex(d, k) == CHOOSE i \in 1..Len(d) : d[i][1] = k

\* d[k] = v of a Python dict: an existing key keeps its position
DictSet(d, k, v) ==
    IF k \in Keys(d)
    THEN [d EXCEPT ![KeyIndex(d, k)] = <<k, v>>]
    ELSE Append(d, <<k, v>>)

\* del d[k]
DictDel(d, k) ==
    [i \in 1..(Len(d) - 1) |-> IF i < KeyIndex(d, k) THEN d[i] ELSE d[i + 1]]

\* the mutant leaves out the membership test, so the assignment overwrites
register_overwrite(m, name, agent) ==
    [raised |-> FALSE, agents |-> DictSet(m, name, agent)]

\* AgentManager.register: the dict it leaves, and whether it raised ValueError
register(m, name, agent) ==
    IF name \in Keys(m)
    THEN [raised |-> TRUE, agents |-> m]
    ELSE [raised |-> FALSE, agents |-> DictSet(m, name, agent)]

\* AgentManager.get: the agent, or 0 for None
get(m, name) == IF name \in Keys(m) THEN m[KeyIndex(m, name)][2] ELSE 0

\* AgentManager.unregister
unregister(m, name) == IF name \in Keys(m) THEN DictDel(m, name) ELSE m

\* AgentManager.all_agents
all_agents(m) == Values(m)

----------------------------------------------------------------------------
(* AgentTool, and the tools the model hands to agents *)

Roles == {"helper"}

Descriptions == {"worker"}

\* an AgentTool: its name, the parameter names of func's signature, and what
\* func does with them ("value": returns a text built from q, "none": returns
\* None, "empty": returns "", "raise": raises)
SearchTool == [name |-> "search", params |-> <<"q">>, does |-> "value"]
NoopTool == [name |-> "noop", params |-> <<>>, does |-> "none"]
BoomTool == [name |-> "boom", params |-> <<"q">>, does |-> "raise"]
BlankTool == [name |-> "blank", params |-> <<>>, does |-> "empty"]

NoTools == <<>>

StdTools ==
    << <<"search", SearchTool>>, <<"noop", NoopTool>>,
       <<"boom", BoomTool>>, <<"blank", BlankTool>> >>

ToolSets == {NoTools, StdTools}

\* AgentTool.__call__ / tool_func(**params): the result, None, or an exception
ToolCall(tool, kwargs) ==
    CASE tool.does = "value" ->
            [raised |-> FALSE, isNone |-> FALSE,
             result |-> "found " \o get(kwargs, "q")]
      [] tool.does = "none" ->
            [raised |-> FALSE, isNone |-> TRUE, result |-> NONE]
      [] tool.does = "empty" ->
            [raised |-> FALSE, isNone |-> FALSE, result |-> ""]
      [] OTHER ->
            [raised |-> TRUE, isNone |-> FALSE, result |-> "kaput"]

----------------------------------------------------------------------------
(* Agent.__init__ and Agent.register_child *)

RECURSIVE Join(_, _)
\* sep.join(strs)
Join(strs, sep) ==
    IF strs = <<>> THEN ""
    ELSE IF Len(strs) = 1 THEN strs[1]
    ELSE strs[1] \o sep \o Join(Tail(strs), sep)

\* str(list_of_names), e.g. ['q']
ListRepr(names) ==
    "[" \o Join([i \in 1..Len(names) |-> "'" \o names[i] \o "'"], ", ") \o "]"

\* the tool_info part of the system message
ToolInfo(tools) ==
    IF tools # <<>>
    THEN Join([i \in 1..Len(tools) |->
                 tools[i][2].name \o " (expects parameters: "
                     \o ListRepr(tools[i][2].params) \o ")"], "; ")
    ELSE "none"

\* the child_info part of the system message
ChildInfo(ags, children) ==
    IF children # <<>>
    THEN Join([i \in 1..Len(children) |->
                 ags[children[i]].name \o " ("
                     \o ags[children[i]].description \o ")"], ", ")
    ELSE "none"

\* the fixed instructions between the tool list and the peer list
ToolInstructions ==
    "When calling a tool (action type 'use_tool'), output a JSON that includes a 'tool' object with a 'name' "
        \o "and a 'params' field. The 'params' field must be a JSON-encoded string containing exactly the parameters "
        \o "expected by that tool. The expected JSON output must follow the provided schema. "

\* the system message
SystemMessage(role, tool_info, child_info) ==
    "Your role is " \o role \o ". You have access to the following Tools: "
        \o tool_info \o ". " \o ToolInstructions
        \o "Peer Agents: " \o child_info \o "."

\* the mutant appends the child without rebuilding the system message
register_child_stale(ags, p, c) ==
    [ags EXCEPT ![p].children = Append(@, c)]

\* Agent.register_child
register_child(ags, p, c) ==
    LET children == Append(ags[p].children, c)
        withChild == [ags EXCEPT ![p].children = children]
    IN  [withChild EXCEPT ![p].history =
            update_system(@, SystemMessage(ags[p].role, ToolInfo(ags[p].tools),
                                           ChildInfo(withChild, children)))]

\* the mutant registers the child with its parent before it registers the
\* name, so a refused name leaves the object in the parent's children
Agent_child_first(ags, m, name, role, description, tools, parent) ==
    LET self == Len(ags) + 1
        obj == [name |-> name, role |-> role, description |-> description,
                tools |-> tools, parent |-> parent, children |-> <<>>,
                last_response |-> NONE,
                history |-> ConversationHistory(
                    SystemMessage(role, ToolInfo(tools), "none"))]
        reg == register(m, name, self)
        made == Append(ags, obj)
        linked == IF parent # 0 THEN register_child(made, parent, self) ELSE made
    IN  [raised |-> reg.raised, manager |-> reg.agents, agents |-> linked]

\* Agent.__init__: the new object is self = Len(ags) + 1; when manager.register
\* raises, the constructor raises and no object is handed to the caller
Agent(ags, m, name, role, description, tools, parent) ==
    LET self == Len(ags) + 1
        obj == [name |-> name, role |-> role, description |-> description,
                tools |-> tools, parent |-> parent, children |-> <<>>,
                last_response |-> NONE,
                history |-> ConversationHistory(
                    SystemMessage(role, ToolInfo(tools), "none"))]
        reg == register(m, name, self)
        made == Append(ags, obj)
    IN  IF reg.raised
        THEN [raised |-> TRUE, agents |-> ags, manager |-> m]
        ELSE [raised |-> FALSE, manager |-> reg.agents,
              agents |-> IF parent # 0 THEN register_child(made, parent, self)
                         ELSE made]

----------------------------------------------------------------------------
(* Calls made from outside the loop: each records itself in last_call *)

Call(op, name, agent, status, value, list) ==
    [op |-> op, name |-> name, agent |-> agent, status |-> status,
     value |-> value, list |-> list]

NoCall == Call("none", NONE, 0, "ok", NONE, <<>>)

Idle == stack = <<>>

\* a run_conversation in progress: the agent, the message send is about to
\* send ("send") or the batch process_actions is working through ("act"), the
\* actions dispatched so far, final, and the requests this run has made
Frame(agent, message) ==
    [agent |-> agent, message |-> message, pc |-> "send", batch |-> <<>>,
     dispatched |-> <<>>, final |-> FALSE, requests |-> 0]

NoReturn == [frame |-> Frame(0, NONE), value |-> NONE]

SystemContents == {"s1", "s2"}

TextContents == {"t1"}

\* history.add_system(content)
AddSystem(content) ==
    /\ Idle
    /\ Len(add_system(messages, content)) <= MaxMessages
    /\ messages' = add_system(messages, content)
    /\ last_call' = Call("add_system", content, 0, "ok", NONE, <<>>)
    /\ UNCHANGED <<agents, manager, loopVars>>

\* history.update_system(content)
UpdateSystem(content) ==
    /\ Idle
    /\ Len(update_system(messages, content)) <= MaxMessages
    /\ messages' = update_system(messages, content)
    /\ last_call' = Call("update_system", content, 0, "ok", NONE, <<>>)
    /\ UNCHANGED <<agents, manager, loopVars>>

\* history.add_user(content)
AddUser(content) ==
    /\ Idle
    /\ Len(messages) < MaxMessages
    /\ messages' = add_user(messages, content)
    /\ last_call' = Call("add_user", content, 0, "ok", NONE, <<>>)
    /\ UNCHANGED <<agents, manager, loopVars>>

\* history.add_assistant(content)
AddAssistant(content) ==
    /\ Idle
    /\ Len(messages) < MaxMessages
    /\ messages' = add_assistant(messages, content)
    /\ last_call' = Call("add_assistant", content, 0, "ok", NONE, <<>>)
    /\ UNCHANGED <<agents, manager, loopVars>>

\* history.add_function(content, name)
AddFunction(content, name) ==
    /\ Idle
    /\ Len(messages) < MaxMessages
    /\ messages' = add_function(messages, content, name)
    /\ last_call' = Call("add_function", content, 0, "ok", NONE, <<>>)
    /\ UNCHANGED <<agents, manager, loopVars>>

\* Agent(name, role, description, manager, tools, parent)
NewAgent(name, role, description, tools, parent) ==
    /\ Idle
    /\ Len(agents) < MaxAgents
    /\ LET r == Agent(agents, manager, name, role, description, tools, parent)
       IN  /\ agents' = r.agents
           /\ manager' = r.manager
           /\ last_call' = Call("Agent", name, parent,
                                IF r.raised THEN "raised" ELSE "ok", NONE, <<>>)
    /\ UNCHANGED <<messages, loopVars>>

\* manager.register(agent) on an agent that exists
ManagerRegister(agent) ==
    /\ Idle
    /\ LET r == register(manager, agents[agent].name, agent)
       IN  /\ manager' = r.agents
           /\ last_call' = Call("register", agents[agent].name, agent,
                                IF r.raised THEN "raised" ELSE "ok", NONE, <<>>)
    /\ UNCHANGED <<agents, messages, loopVars>>

\* manager.unregister(name)
ManagerUnregister(name) ==
    /\ Idle
    /\ manager' = unregister(manager, name)
    /\ last_call' = Call("unregister", name, 0, "ok", NONE, <<>>)
    /\ UNCHANGED <<agents, messages, loopVars>>

\* manager.get(name)
ManagerGet(name) ==
    /\ Idle
    /\ last_call' = Call("get", name, get(manager, name), "ok", NONE, <<>>)
    /\ UNCHANGED <<agents, manager, messages, loopVars>>

\* manager.all_agents()
ManagerAllAgents ==
    /\ Idle
    /\ last_call' = Call("all_agents", NONE, 0, "ok", NONE, all_agents(manager))
    /\ UNCHANGED <<agents, manager, messages, loopVars>>

----------------------------------------------------------------------------
(* The conversation history alone *)

InitHistory ==
    /\ agents = <<>>
    /\ manager = <<>>
    /\ messages \in {ConversationHistory(NONE), ConversationHistory("s1")}
    /\ stack = <<>>
    /\ last_call = NoCall
    /\ nreq = 0
    /\ lookups = 0
    /\ calls = <<>>
    /\ returned = NoReturn
    /\ response = <<>>

NextHistory ==
    \/ \E c \in SystemContents : AddSystem(c)
    \/ \E c \in SystemContents : UpdateSystem(c)
    \/ \E c \in TextContents : AddUser(c)
    \/ \E c \in TextContents : AddAssistant(c)
    \/ \E c \in TextContents : AddFunction(c, "search")

SpecHistory == InitHistory /\ [][NextHistory]_vars

----------------------------------------------------------------------------
(* The registry and the agent tree, with no conversation running *)

InitTopology ==
    /\ agents = <<>>
    /\ manager = <<>>
    /\ messages = <<>>
    /\ stack = <<>>
    /\ last_call = NoCall
    /\ nreq = 0
    /\ lookups = 0
    /\ calls = <<>>
    /\ returned = NoReturn
    /\ response = <<>>

TopologyNames == {"a", "b"}

NextTopology ==
    \/ \E name \in TopologyNames, role \in Roles, description \in Descriptions,
          tools \in ToolSets, parent \in 0..Len(agents) :
            NewAgent(name, role, description, tools, parent)
    \/ \E agent \in 1..Len(agents) : ManagerRegister(agent)
    \/ \E name \in TopologyNames : ManagerUnregister(name)
    \/ \E name \in TopologyNames : ManagerGet(name)
    \/ ManagerAllAgents

SpecTopology == InitTopology /\ [][NextTopology]_vars

----------------------------------------------------------------------------
(* Model replies: the parsed JSON value and the text that encodes it *)

\* a raw action object of a reply; agent and message are NONE for null, tool
\* is <<>> for null or <<[name, params]>>, params a JSON value: an object
\* [kind |-> "object", items |-> its members in order], or another type
RawAction(type, agent, tool, message) ==
    [type |-> type, agent |-> agent, tool |-> tool, message |-> message]

JsonObject(items) == [kind |-> "object", items |-> items]

JsonString(text) == [kind |-> "string", items |-> << <<"", text>> >>]

JsonList(texts) ==
    [kind |-> "list", items |-> [i \in 1..Len(texts) |-> <<"", texts[i]>>]]

RawTool(name, params) == <<[name |-> name, params |-> params]>>

\* a reply: whether its text is JSON at all, and the actions array it holds
RawReply(wellformed, actions) == [wellformed |-> wellformed, actions |-> actions]

Quote(s) == IF s = NONE THEN "null" ELSE "\"" \o s \o "\""

RenderParams(p) ==
    IF p.kind = "object"
    THEN "{" \o Join([i \in 1..Len(p.items) |->
                Quote(p.items[i][1]) \o ": " \o Quote(p.items[i][2])], ", ")
             \o "}"
    ELSE IF p.kind = "list"
    THEN "[" \o Join([i \in 1..Len(p.items) |-> Quote(p.items[i][2])], ", ")
             \o "]"
    ELSE Quote(p.items[1][2])

RenderTool(t) ==
    IF t = <<>> THEN "null"
    ELSE "{\"name\": " \o Quote(t[1].name) \o ", \"params\": "
             \o RenderParams(t[1].params) \o "}"

RenderAction(a) ==
    "{\"type\": " \o Quote(a.type) \o ", \"agent\": " \o Quote(a.agent)
        \o ", \"tool\": " \o RenderTool(a.tool)
        \o ", \"message\": " \o Quote(a.message) \o "}"

\* response.choices[0].message.content: the text of a reply
Content(reply) ==
    IF reply.wellformed
    THEN "{\"reasoning\": \"r\", \"actions\": ["
             \o Join([i \in 1..Len(reply.actions) |->
                        RenderAction(reply.actions[i])], ", ") \o "]}"
    ELSE "not json"

----------------------------------------------------------------------------
(* models.py: ToolModel, ActionModel, AIResponseModel *)

ActionTypes == {"respond", "use_tool", "call_agent"}

\* ToolModel: params must be a dict; name may be None
ToolModelValid(t) == t.params.kind = "object"

\* ActionModel.check_type
check_type(v) == v \in ActionTypes

\* ActionModel: type passes check_type, message is a str, tool is None or a
\* ToolModel, agent is None or a str
ActionModelValid(a) ==
    /\ check_type(a.type)
    /\ a.message # NONE
    /\ a.tool = <<>> \/ ToolModelValid(a.tool[1])

\* the decoded ActionModel: the tool's params become the dict itself
ActionModel(a) ==
    [type |-> a.type, agent |-> a.agent, message |-> a.message,
     tool |-> IF a.tool = <<>> THEN <<>>
              ELSE <<[name |-> a.tool[1].name,
                      params |-> a.tool[1].params.items]>>]

\* AIResponseModel.model_validate
AIResponseModelValid(reply) ==
    \A i \in 1..Len(reply.actions) : ActionModelValid(reply.actions[i])

\* Agent.parse_response: json.loads, then model_validate; any exception is
\* caught, noted in the history and None is returned
parse_response(reply) ==
    IF reply.wellformed /\ AIResponseModelValid(reply)
    THEN [isNone |-> FALSE,
          actions |-> [i \in 1..Len(reply.actions) |->
                          ActionModel(reply.actions[i])]]
    ELSE [isNone |-> TRUE, actions |-> <<>>]

\* the note parse_response leaves (the source's string is not an f-string)
ParseErrorNote == "Error parsing response: {e}"

----------------------------------------------------------------------------
(* Agent.call_api, Agent.send and the action handlers of process_actions *)

\* the mutant sends the request without appending the user message
call_api_silent(history, message) == history

\* Agent.call_api up to the request: the user message is appended
call_api(history, message) == add_user(history, message)

\* the mutant leaves no note when the reply does not parse
send_silent(history, message, reply) ==
    [history |-> add_assistant(call_api(history, message), Content(reply)),
     ai_response |-> parse_response(reply)]

\* Agent.send: the history it leaves and the ai_response it returns
send(history, message, reply) ==
    LET asked == call_api(history, message)
        ai_response == parse_response(reply)
        noted == IF ai_response.isNone
                 THEN add_assistant(asked, ParseErrorNote)
                 ELSE asked
    IN  [history |-> add_assistant(noted, Content(reply)),
         ai_response |-> ai_response]

\* Agent._validate_strict_params: str() of every value; the values of the
\* model are strings already
validate_strict_params(params) ==
    [i \in 1..Len(params) |-> <<params[i][1], params[i][2]>>]

ToolNotAvailable(action) ==
    "Tool not available: "
        \o (IF action.tool = <<>> THEN NONE ELSE action.tool[1].name)

\* the orders in which a set of names may be iterated: the order of a Python
\* set of strings changes with the hash seed of the run
Orders(S) ==
    {seq \in [1..Cardinality(S) -> S] :
        \A i, j \in 1..Cardinality(S) : seq[i] = seq[j] => i = j}

\* str(S) of a set of strings, for every order: set() or {'q', 'n'}
SetReprs(S) ==
    IF S = {} THEN {"set()"}
    ELSE {"{" \o Join([i \in 1..Len(seq) |-> "'" \o seq[i] \o "'"], ", ") \o "}" :
            seq \in Orders(S)}

\* the note of a mismatch, given the two sets as Python printed them
ParameterMismatch(name, expected, provided) ==
    "Parameter mismatch for " \o name \o ": expected " \o expected
        \o ", got " \o provided

\* the notes a mismatch may leave
MismatchNotes(name, expected, provided) ==
    {ParameterMismatch(name, e, p) :
        e \in SetReprs(expected), p \in SetReprs(provided)}

ToolError(name, e) == "Error with tool " \o name \o ": " \o e

NoOutput == "Tool executed successfully with no output."

\* the set of formal parameter names of a tool's func
Expected(tool) == {tool.params[i] : i \in 1..Len(tool.params)}

\* the mutant accepts a key set that covers the formal parameters
params_match_superset(provided, expected) == expected \subseteq provided

\* provided_params != expected_params, negated
params_match(provided, expected) == provided = expected

\* the use_tool branch of process_actions: the history it leaves and the
\* invocations of the tool function it makes, for every text the note of a
\* mismatch may have
use_tool(self, obj, action) ==
    IF action.tool # <<>> /\ action.tool[1].name \in Keys(obj.tools)
    THEN LET name == action.tool[1].name
             tool == get(obj.tools, name)
             params == validate_strict_params(action.tool[1].params)
         IN  IF ~params_match(Keys(params), Expected(tool))
             THEN {[history |-> add_assistant(obj.history, error_msg),
                    invoked |-> <<>>] :
                      error_msg \in MismatchNotes(name, Expected(tool),
                                                  Keys(params))}
             ELSE LET r == ToolCall(tool, params)
                      tool_result == IF r.isNone THEN NoOutput ELSE r.result
                  IN  {[history |->
                          IF r.raised
                          THEN add_assistant(obj.history, ToolError(name, r.result))
                          ELSE add_function(obj.history, tool_result, name),
                        invoked |-> <<[agent |-> self, tool |-> name,
                                       params |-> params]>>]}
    ELSE {[history |-> add_assistant(obj.history, ToolNotAvailable(action)),
           invoked |-> <<>>]}

\* the mutant also lets an agent call itself
allowed_with_self(ags, self) ==
    {ags[self].name}
        \cup (IF ags[self].parent # 0 THEN {ags[ags[self].parent].name} ELSE {})
        \cup {ags[ags[self].children[i]].name : i \in 1..Len(ags[self].children)}

\* the allowed set of the call_agent branch
allowed(ags, self) ==
    (IF ags[self].parent # 0 THEN {ags[ags[self].parent].name} ELSE {})
        \cup {ags[ags[self].children[i]].name : i \in 1..Len(ags[self].children)}

\* the mutant records the text without the name of the agent it came from
Received_untagged(history, agent, final_response) ==
    IF final_response # NONE /\ final_response # ""
    THEN add_assistant(history, final_response)
    ELSE history

\* what the caller records when a delegated run returns final_response
Received(history, agent, final_response) ==
    IF final_response # NONE /\ final_response # ""
    THEN add_assistant(history, agent \o ": " \o final_response)
    ELSE history

----------------------------------------------------------------------------
(* Agent.run_conversation, one step at a time *)

Top == stack[Len(stack)]

Acting == stack # <<>> /\ Top.pc = "act"

\* the mutant walks the batch backwards
Current_reversed == Top.batch[Len(Top.batch) - Len(Top.dispatched)]

\* the action the for loop of process_actions is at
Current == Top.batch[Len(Top.dispatched) + 1]

Dispatching(type) ==
    /\ Acting
    /\ Len(Top.dispatched) < Len(Top.batch)
    /\ Current.type = type

Advance(frame) == [frame EXCEPT !.dispatched = Append(@, Current)]

\* the mutant has the run that delegated swallow the exception of the run it
\* started: only the innermost run ends
Raise_swallowed ==
    /\ stack' = SubSeq(stack, 1, Len(stack) - 1)
    /\ UNCHANGED last_call

\* an exception leaves every run_conversation on the stack: none catches it
\* (each logs and re-raises), so the outside caller sees it
Raise ==
    /\ stack' = <<>>
    /\ last_call' = [last_call EXCEPT !.status = "raised"]

\* agent.run_conversation(initial_message), called from outside
RunConversation(agent, initial_message) ==
    /\ Idle
    /\ nreq < MaxRequests
    /\ stack' = <<Frame(agent, initial_message)>>
    /\ last_call' = Call("run_conversation", initial_message, agent, "running",
                         NONE, <<>>)
    /\ UNCHANGED <<agents, manager, messages, nreq, lookups, calls, returned, response>>

\* self.send(message) with the model answering reply, then the entry of
\* process_actions: last_response = None, final = False; a reply that did not
\* parse makes process_actions raise AttributeError on ai_response.actions
Send(reply) ==
    /\ stack # <<>>
    /\ Top.pc = "send"
    /\ nreq < MaxRequests
    /\ nreq' = nreq + 1
    /\ response' = <<reply>>
    /\ LET self == Top.agent
           sent == send(agents[self].history, Top.message, reply)
       IN  /\ agents' = [agents EXCEPT ![self].history = sent.history,
                                       ![self].last_response = NONE]
           /\ IF sent.ai_response.isNone
              THEN Raise
              ELSE /\ stack' = [stack EXCEPT ![Len(stack)] =
                          [@ EXCEPT !.pc = "act",
                                    !.batch = sent.ai_response.actions,
                                    !.dispatched = <<>>,
                                    !.final = FALSE,
                                    !.requests = @ + 1]]
                   /\ UNCHANGED last_call
    /\ UNCHANGED <<manager, messages, lookups, calls, returned>>

\* self.send(message) with the request raising: call_api logs and re-raises
ProviderError ==
    /\ stack # <<>>
    /\ Top.pc = "send"
    /\ nreq < MaxRequests
    /\ nreq' = nreq + 1
    /\ response' = <<>>
    /\ agents' = [agents EXCEPT ![Top.agent].history = call_api(@, Top.message)]
    /\ Raise
    /\ UNCHANGED <<manager, messages, lookups, calls, returned>>

\* a respond action
DispatchRespond ==
    /\ Dispatching("respond")
    /\ agents' = [agents EXCEPT ![Top.agent].last_response = Current.message]
    /\ stack' = [stack EXCEPT ![Len(stack)] = [Advance(@) EXCEPT !.final = TRUE]]
    /\ UNCHANGED <<manager, messages, last_call, nreq, lookups, calls, returned, response>>

\* a use_tool action
DispatchUseTool ==
    /\ Dispatching("use_tool")
    /\ \E r \in use_tool(Top.agent, agents[Top.agent], Current) :
          /\ agents' = [agents EXCEPT ![Top.agent].history = r.history]
          /\ calls' = calls \o r.invoked
    /\ stack' = [stack EXCEPT ![Len(stack)] = Advance(@)]
    /\ UNCHANGED <<manager, messages, last_call, nreq, lookups, returned, response>>

\* a call_agent action: refused, or looked up and not found, or the target's
\* run_conversation(action.message) starts on top of this one
DispatchCallAgent ==
    /\ Dispatching("call_agent")
    /\ IF Current.agent \notin allowed(agents, Top.agent)
       THEN /\ stack' = [stack EXCEPT ![Len(stack)] = Advance(@)]
            /\ UNCHANGED lookups
       ELSE /\ lookups' = lookups + 1
            /\ LET target == get(manager, Current.agent)
               IN  IF target # 0
                   THEN stack' = Append([stack EXCEPT ![Len(stack)] = Advance(@)],
                                        Frame(target, Current.message))
                   ELSE stack' = [stack EXCEPT ![Len(stack)] = Advance(@)]
    /\ UNCHANGED <<agents, manager, messages, last_call, nreq, calls, returned, response>>

BatchDone == Acting /\ Len(Top.dispatched) = Len(Top.batch)

\* process_actions returned True: run_conversation returns self.last_response,
\* to the outside caller or to the call_agent branch of the run below it
Return ==
    /\ BatchDone
    /\ Top.final
    /\ LET value == agents[Top.agent].last_response
       IN  /\ returned' = [frame |-> Top, value |-> value]
           /\ IF Len(stack) = 1
              THEN /\ last_call' = [last_call EXCEPT !.status = "ok",
                                                     !.value = value]
                   /\ UNCHANGED agents
              ELSE LET caller == stack[Len(stack) - 1]
                       action == caller.dispatched[Len(caller.dispatched)]
                   IN  /\ agents' = [agents EXCEPT ![caller.agent].history =
                                        Received(@, action.agent, value)]
                       /\ UNCHANGED last_call
    /\ stack' = SubSeq(stack, 1, Len(stack) - 1)
    /\ UNCHANGED <<manager, messages, nreq, lookups, calls, response>>

\* the mutant gives up after a batch without respond: the run returns None
Continue_capped ==
    /\ BatchDone
    /\ ~Top.final
    /\ returned' = [frame |-> Top, value |-> NONE]
    /\ stack' = SubSeq(stack, 1, Len(stack) - 1)
    /\ UNCHANGED <<agents, manager, messages, last_call, nreq, lookups, calls,
                   response>>

\* process_actions returned False: the loop sends the continue prompt next
Continue ==
    /\ BatchDone
    /\ ~Top.final
    /\ stack' = [stack EXCEPT ![Len(stack)] =
                    [@ EXCEPT !.pc = "send", !.message = "Continue decision making."]]
    /\ UNCHANGED <<agents, manager, messages, last_call, nreq, lookups, calls,
                   returned, response>>

----------------------------------------------------------------------------
(* The replies the model may give *)

Respond(message) == RawAction("respond", NONE, <<>>, message)

UseTool(name, items) ==
    RawAction("use_tool", NONE, RawTool(name, JsonObject(items)), "")

CallAgent(agent, message) == RawAction("call_agent", agent, <<>>, message)

\* actions that do not validate: a type outside the enum, a null message,
\* params that are a JSON string, params that are a JSON list
BogusType == RawAction("think", NONE, <<>>, "m1")
NullMessage == RawAction("respond", NONE, <<>>, NONE)
StringParams == RawAction("use_tool", NONE, RawTool("search", JsonString("q=x")), "")
ListParams == RawAction("use_tool", NONE, RawTool("search", JsonList(<<"x">>)), "")

NotJson == RawReply(FALSE, <<>>)

\* every reply that is JSON and holds up to MaxBatch actions of the pool
Replies(pool) ==
    {RawReply(TRUE, batch) : batch \in UNION {[1..n -> pool] : n \in 0..MaxBatch}}

----------------------------------------------------------------------------
(* Delegation three levels deep: a is the root, b its child, c the child of
   b; c has been unregistered *)

Chain1 == Agent(<<>>, <<>>, "a", "helper", "worker", StdTools, 0)
Chain2 == Agent(Chain1.agents, Chain1.manager, "b", "helper", "worker", NoTools, 1)
Chain3 == Agent(Chain2.agents, Chain2.manager, "c", "helper", "worker", NoTools, 2)

Init ==
    /\ agents = Chain3.agents
    /\ manager = unregister(Chain3.manager, "c")
    /\ messages = <<>>
    /\ stack = <<>>
    /\ last_call = NoCall
    /\ nreq = 0
    /\ lookups = 0
    /\ calls = <<>>
    /\ returned = NoReturn
    /\ response = <<>>

DelegationPool ==
    {Respond("m1"), Respond("m2"),
     CallAgent("a", "go"), CallAgent("b", "go"), CallAgent("c", "go"),
     UseTool("search", << <<"q", "x">> >>)}

DelegationReplies ==
    Replies(DelegationPool) \cup {NotJson, RawReply(TRUE, <<BogusType>>)}

Next ==
    \/ \E agent \in 1..Len(agents) : RunConversation(agent, "task")
    \/ \E reply \in DelegationReplies : Send(reply)
    \/ ProviderError
    \/ DispatchRespond
    \/ DispatchUseTool
    \/ DispatchCallAgent
    \/ Return
    \/ Continue

Spec == Init /\ [][Next]_vars

----------------------------------------------------------------------------
(* One batch in detail: a owns the tools and has the child b; at most
   MaxBatchRequests requests are made *)

MaxBatchRequests == 2

Pair1 == Agent(<<>>, <<>>, "a", "helper", "worker", StdTools, 0)
Pair2 == Agent(Pair1.agents, Pair1.manager, "b", "helper", "worker", NoTools, 1)

InitBatch ==
    /\ agents = Pair2.agents
    /\ manager = Pair2.manager
    /\ messages = <<>>
    /\ stack = <<>>
    /\ last_call = NoCall
    /\ nreq = 0
    /\ lookups = 0
    /\ calls = <<>>
    /\ returned = NoReturn
    /\ response = <<>>

BatchPool ==
    {Respond("m1"), Respond(""),
     CallAgent("a", "go"), CallAgent("b", "go"), CallAgent(NONE, "go"),
     UseTool("search", << <<"q", "x">> >>),
     UseTool("search", <<>>),
     UseTool("search", << <<"q", "x">>, <<"n", "1">> >>),
     UseTool("search", << <<"p", "x">> >>),
     UseTool("boom", << <<"q", "x">> >>),
     UseTool("noop", <<>>),
     UseTool("blank", <<>>),
     UseTool("nope", <<>>),
     RawAction("use_tool", NONE, <<>>, ""),
     BogusType, NullMessage, StringParams, ListParams}

BatchReplies == Replies(BatchPool) \cup {NotJson}

NextBatch ==
    \/ \E agent \in 1..Len(agents) :
          nreq < MaxBatchRequests /\ RunConversation(agent, "task")
    \/ \E reply \in BatchReplies : nreq < MaxBatchRequests /\ Send(reply)
    \/ nreq < MaxBatchRequests /\ ProviderError
    \/ DispatchRespond
    \/ DispatchUseTool
    \/ DispatchCallAgent
    \/ Return
    \/ Continue

SpecBatch == InitBatch /\ [][NextBatch]_vars

----------------------------------------------------------------------------
(* The agent loop of a and its child b, one action per reply, with the
   operations of a free-standing history between the runs *)

InitAppend ==
    /\ agents = Pair2.agents
    /\ manager = Pair2.manager
    /\ messages = ConversationHistory(NONE)
    /\ stack = <<>>
    /\ last_call = NoCall
    /\ nreq = 0
    /\ lookups = 0
    /\ calls = <<>>
    /\ returned = NoReturn
    /\ response = <<>>

AppendPool ==
    {Respond("m1"), CallAgent("a", "go"), CallAgent("b", "go"),
     UseTool("search", << <<"q", "x">> >>)}

AppendReplies == {RawReply(TRUE, <<action>>) : action \in AppendPool} \cup {NotJson}

NextAppend ==
    \/ \E c \in SystemContents : AddSystem(c)
    \/ \E c \in SystemContents : UpdateSystem(c)
    \/ \E c \in TextContents : AddUser(c)
    \/ \E c \in TextContents : AddAssistant(c)
    \/ \E c \in TextContents : AddFunction(c, "search")
    \/ \E agent \in 1..Len(agents) : RunConversation(agent, "task")
    \/ \E reply \in AppendReplies : Send(reply)
    \/ ProviderError
    \/ DispatchRespond
    \/ DispatchUseTool
    \/ DispatchCallAgent
    \/ Return
    \/ Continue

SpecAppend == InitAppend /\ [][NextAppend]_vars

----------------------------------------------------------------------------
(* Agents constructed, registered and unregistered between the runs: the
   tree and the registry change while histories grow *)

MaxDynamicRequests == 2

InitDynamic ==
    /\ agents = <<>>
    /\ manager = <<>>
    /\ messages = <<>>
    /\ stack = <<>>
    /\ last_call = NoCall
    /\ nreq = 0
    /\ lookups = 0
    /\ calls = <<>>
    /\ returned = NoReturn
    /\ response = <<>>

DynamicNames == {"a", "b", "c"}

NextDynamic ==
    \/ \E name \in DynamicNames, role \in Roles, description \in Descriptions,
          parent \in 0..Len(agents) :
            NewAgent(name, role, description, NoTools, parent)
    \/ \E agent \in 1..Len(agents) : ManagerRegister(agent)
    \/ \E name \in DynamicNames : ManagerUnregister(name)
    \/ \E agent \in 1..Len(agents) :
          nreq < MaxDynamicRequests /\ RunConversation(agent, "task")
    \/ \E reply \in AppendReplies : nreq < MaxDynamicRequests /\ Send(reply)
    \/ nreq < MaxDynamicRequests /\ ProviderError
    \/ DispatchRespond
    \/ DispatchUseTool
    \/ DispatchCallAgent
    \/ Return
    \/ Continue

SpecDynamic == InitDynamic /\ [][NextDynamic]_vars

----------------------------------------------------------------------------
(* The loop of a and its child b when every request succeeds, every reply
   decodes, and the model answers respond before the requests run out; each
   step of a run in progress is eventually taken *)

LiveReplies == {RawReply(TRUE, <<action>>) : action \in AppendPool}

\* the runs that are still open after the reply: a respond ends the run that
\* asked, a call_agent that is allowed and found opens one more
OpenAfter(reply) ==
    LET a == reply.actions[1]
    IN  CASE a.type = "respond" -> Len(stack) - 1
          [] /\ a.type = "call_agent"
             /\ a.agent \in allowed(agents, Top.agent)
             /\ get(manager, a.agent) # 0 -> Len(stack) + 1
          [] OTHER -> Len(stack)

\* the model leaves room for every open run to be answered with a respond
EventuallyResponds(reply) ==
    stack # <<>> /\ nreq + 1 + OpenAfter(reply) <= MaxRequests

LoopStep ==
    \/ \E reply \in LiveReplies : EventuallyResponds(reply) /\ Send(reply)
    \/ DispatchRespond
    \/ DispatchUseTool
    \/ DispatchCallAgent
    \/ Return
    \/ Continue

NextLive ==
    \/ \E agent \in 1..Len(agents) : RunConversation(agent, "task")
    \/ LoopStep

SpecLive == InitBatch /\ [][NextLive]_vars /\ WF_vars(LoopStep)

----------------------------------------------------------------------------
(* Claims about the conversation history and the registry *)

SystemSlot(msgs) == SystemIndexes(msgs, "system")

SetsSystem(call) == call.op \in {"add_system", "update_system"}

\* C7: the history holds at most one system message, at position 0 if there
\* is one; setting the system message when one exists replaces its content in
\* place, so the count and the order of the messages stay as they were (also
\* when the same content is set again)
C7_OneSystemMessageInPlace ==
    /\ [](/\ Cardinality(SystemSlot(messages)) <= 1
          /\ SystemSlot(messages) # {} => messages[1].role = "system")
    /\ [][(SetsSystem(last_call') /\ SystemSlot(messages) # {}) =>
            /\ Len(messages') = Len(messages)
            /\ messages'[1] = [role |-> "system", content |-> last_call'.name]
            /\ Tail(messages') = Tail(messages)]_vars
    /\ [][(SetsSystem(last_call') /\ SystemSlot(messages) = {}) =>
            messages' = <<[role |-> "system", content |-> last_call'.name]>>
                            \o messages]_vars

\* a system message was set over an earlier one with other messages present
C7_Witness ==
    /\ SetsSystem(last_call)
    /\ Len(messages) >= 3
    /\ messages[1] = [role |-> "system", content |-> "s2"]
    /\ messages[2].role = "user"

Registers(call) == call.op \in {"register", "Agent"}

\* C5: the registry maps a name to at most one agent, and a registration
\* (direct, or by constructing an agent) under a name that is present raises
\* and leaves the registry as it was: get(name) still returns the agent that
\* was registered first
C5_DuplicateRegistrationFails ==
    /\ [](\A i, j \in 1..Len(manager) : manager[i][1] = manager[j][1] => i = j)
    /\ [][(Registers(last_call') /\ last_call'.name \in Keys(manager)) =>
            /\ last_call'.status = "raised"
            /\ manager' = manager
            /\ get(manager', last_call'.name) = get(manager, last_call'.name)]_vars
    /\ [][(Registers(last_call') /\ last_call'.name \notin Keys(manager)) =>
            /\ last_call'.status = "ok"
            /\ get(manager', last_call'.name) # 0]_vars

\* registering one agent was refused while another agent holds its name
C5_Witness ==
    /\ last_call.op = "register"
    /\ last_call.status = "raised"
    /\ get(manager, last_call.name) # 0
    /\ get(manager, last_call.name) # last_call.agent

----------------------------------------------------------------------------
(* Claims about one batch: tools, delegation to a child, decoding *)

LastOf(seq) == seq[Len(seq)]

History(agent) == agents[agent].history

Note(content) == [role |-> "assistant", content |-> content]

\* the use_tool action at hand names a tool the agent owns
OwnedTool ==
    /\ Dispatching("use_tool")
    /\ Current.tool # <<>>
    /\ Current.tool[1].name \in Keys(agents[Top.agent].tools)

\* C6: for a use_tool action naming a tool the agent owns, a key set that
\* differs from the function's parameter names (a strict subset, a strict
\* superset, other keys) is reported as a mismatch and the tool is not
\* invoked; an equal key set invokes the tool once with those arguments and
\* one message is recorded, which holds the return value when there is one
C6_ExactParameterMatch ==
    [][OwnedTool =>
        LET self == Top.agent
            name == Current.tool[1].name
            tool == get(agents[self].tools, name)
            params == Current.tool[1].params
            r == ToolCall(tool, params)
        IN  IF Keys(params) = Expected(tool)
            THEN /\ calls' = Append(calls, [agent |-> self, tool |-> name,
                                            params |-> params])
                 /\ Len(agents'[self].history) = Len(History(self)) + 1
                 /\ (~r.raised /\ ~r.isNone) =>
                        LastOf(agents'[self].history) =
                            [role |-> "function", content |-> r.result,
                             name |-> name]
            ELSE /\ calls' = calls
                 /\ \E error_msg \in MismatchNotes(name, Expected(tool),
                                                    Keys(params)) :
                        agents'[self].history =
                            Append(History(self), Note(error_msg))]_vars

\* a superset of the parameters was refused, then the exact set was accepted
C6_Witness ==
    /\ Acting
    /\ Top.agent = 1
    /\ Top.dispatched =
          <<ActionModel(UseTool("search", << <<"q", "x">>, <<"n", "1">> >>)),
            ActionModel(UseTool("search", << <<"q", "x">> >>))>>
    /\ Len(calls) = 1
    /\ History(1)[Len(History(1)) - 1] =
          Note("Parameter mismatch for search: expected {'q'}, got {'n', 'q'}")
    /\ LastOf(History(1)) =
          [role |-> "function", content |-> "found x", name |-> "search"]

\* a delegated run returns to the run that called it
NestedReturn == Len(stack) >= 2 /\ Len(stack') = Len(stack) - 1

Caller == stack[Len(stack) - 1]

\* C4 as stated: whatever text the target returns is appended to the caller's
\* history, tagged with the target's name
C4_ReturnedTextAlwaysRecorded ==
    [][NestedReturn =>
        agents'[Caller.agent].history =
            Append(History(Caller.agent),
                   Note(LastOf(Caller.dispatched).agent \o ": "
                            \o returned'.value))]_vars

\* C4 as amended: while a delegated run is on the stack the caller stays at
\* its call_agent action, the target having been started with that action's
\* message by the agent registered under that action's name; when the target
\* returns, the caller is still in that batch, and the text is appended to
\* the caller's history tagged with the target's name if it is not empty,
\* and nothing is appended if it is empty
C4_NonEmptyTextRecorded ==
    /\ [](\A k \in 1..(Len(stack) - 1) :
            /\ stack[k].pc = "act"
            /\ stack[k].dispatched # <<>>
            /\ LastOf(stack[k].dispatched).type = "call_agent"
            /\ agents[stack[k + 1].agent].name = LastOf(stack[k].dispatched).agent
            /\ stack[k + 1].requests = 0 =>
                  stack[k + 1].message = LastOf(stack[k].dispatched).message)
    /\ [][NestedReturn =>
            /\ returned'.value = agents[Top.agent].last_response
            /\ stack' = SubSeq(stack, 1, Len(stack) - 1)
            /\ agents'[Caller.agent].history =
                  IF returned'.value # ""
                  THEN Append(History(Caller.agent),
                              Note(LastOf(Caller.dispatched).agent \o ": "
                                       \o returned'.value))
                  ELSE History(Caller.agent)]_vars

\* b answered m1 to a, and a holds the entry tagged b
C4_Witness ==
    /\ Acting
    /\ Top.agent = 1
    /\ returned.frame.agent = 2
    /\ returned.value = "m1"
    /\ LastOf(Top.dispatched) = ActionModel(CallAgent("b", "go"))
    /\ LastOf(History(1)) = Note("b: m1")

\* a request was answered by a reply that does not decode
FailedDecode ==
    /\ nreq' = nreq + 1
    /\ response' # <<>>
    /\ parse_response(response'[1]).isNone

\* C8: a reply that fails JSON parsing or validation leaves an assistant note
\* of the failure in the history of the agent (after the user turn, before
\* the raw reply), ends the run by an exception that reaches the outside
\* caller, dispatches nothing and makes no further request
C8_DecodeFailureRaises ==
    [][FailedDecode =>
        /\ agents'[Top.agent].history =
              History(Top.agent)
                  \o <<[role |-> "user", content |-> Top.message],
                       Note(ParseErrorNote),
                       Note(Content(response'[1]))>>
        /\ stack' = <<>>
        /\ last_call'.status = "raised"
        /\ calls' = calls
        /\ lookups' = lookups
        /\ returned' = returned]_vars

\* the reply of b, reached by delegation from a, did not decode
C8_Witness ==
    /\ last_call.op = "run_conversation"
    /\ last_call.agent = 1
    /\ last_call.status = "raised"
    /\ stack = <<>>
    /\ Len(History(2)) = 4
    /\ History(2)[3] = Note(ParseErrorNote)

BadType(a) == a.type \notin ActionTypes

NoTool(a) == a.type = "use_tool" /\ a.tool = <<>>

NoAgent(a) == a.type = "call_agent" /\ a.agent = NONE

\* the actions of the JSON reply that answers a request in this step
AnsweredActions ==
    IF nreq' = nreq + 1 /\ response' # <<>> /\ response'[1].wellformed
    THEN {response'[1].actions[i] : i \in 1..Len(response'[1].actions)}
    ELSE {}

Incomplete(a) == BadType(a) \/ NoTool(a) \/ NoAgent(a)

\* C9: a reply with an action of an unknown type, a use_tool action without
\* tool or a call_agent action without agent fails decoding: the run ends
\* with the exception and nothing of the reply is dispatched
C9_IncompleteActionRejected ==
    [][(\E a \in AnsweredActions : Incomplete(a)) =>
        (stack' = <<>> /\ last_call'.status = "raised")]_vars

----------------------------------------------------------------------------
(* Claims about delegation over three levels *)

RespondIndexes(batch) == {i \in 1..Len(batch) : batch[i].type = "respond"}

LastRespond(batch) ==
    CHOOSE i \in RespondIndexes(batch) : \A j \in RespondIndexes(batch) : j <= i

Returned == returned.frame.agent # 0

\* C1: a run whose batch holds exactly one respond action returns the message
\* of that action, and no run makes another request after a batch that holds
\* a respond action
C1_ReturnsTheOneRespond ==
    /\ (Returned /\ Cardinality(RespondIndexes(returned.frame.batch)) = 1) =>
          returned.value =
              returned.frame.batch[LastRespond(returned.frame.batch)].message
    /\ \A k \in 1..Len(stack) :
          (stack[k].pc = "send" /\ stack[k].requests >= 1) =>
              RespondIndexes(stack[k].batch) = {}

\* a respond action of the batch is followed by another action
RespondFollowed(batch) ==
    \E i \in RespondIndexes(batch) : i < Len(batch)

\* C2: a run whose batch holds a respond action followed by other actions
\* returns only after every action of the batch was dispatched, in order, and
\* returns the message of the last respond action of the batch
C2_AllDispatchedLastRespondWins ==
    (Returned /\ RespondFollowed(returned.frame.batch)) =>
        /\ returned.frame.dispatched = returned.frame.batch
        /\ returned.value =
              returned.frame.batch[LastRespond(returned.frame.batch)].message

\* the names an agent may delegate to: its parent's and those of the agents
\* constructed with it as parent
Neighbours(self) ==
    {agents[j].name : j \in {i \in 1..Len(agents) :
                                \/ i = agents[self].parent
                                \/ agents[i].parent = self}}

Forbidden == Dispatching("call_agent") /\ Current.agent \notin Neighbours(Top.agent)

\* C3: a call_agent action whose target is not the parent's name or a child's
\* name makes no registry lookup, starts no run, changes no agent's history or
\* last_response, makes no request and invokes no tool; the batch goes on
\* with the next action
C3_ForbiddenTargetUntouched ==
    [][Forbidden =>
        /\ lookups' = lookups
        /\ agents' = agents
        /\ stack' = [stack EXCEPT ![Len(stack)] = Advance(@)]
        /\ nreq' = nreq
        /\ calls' = calls]_vars

\* a asked for itself and then for its grandchild c: nothing was looked up,
\* no run was started and both actions are behind it
C3_Witness ==
    /\ Acting
    /\ lookups = 0
    /\ Len(stack) = 1
    /\ Top.agent = 1
    /\ Top.dispatched = <<ActionModel(CallAgent("a", "go")),
                          ActionModel(CallAgent("c", "go"))>>
    /\ History(3) = Chain3.agents[3].history

\* the action at hand fails at dispatch: a tool the agent does not own, a key
\* set that does not match, a tool that raises, a target that is not allowed,
\* an allowed target that is not registered
DispatchError ==
    \/ /\ Dispatching("use_tool")
       /\ \/ ~OwnedTool
          \/ LET tool == get(agents[Top.agent].tools, Current.tool[1].name)
             IN  \/ Keys(Current.tool[1].params) # Expected(tool)
                 \/ ToolCall(tool, Current.tool[1].params).raised
    \/ /\ Dispatching("call_agent")
       /\ \/ Current.agent \notin Neighbours(Top.agent)
          \/ get(manager, Current.agent) = 0

\* C10: every dispatch error appends one assistant note to the history of the
\* agent, raises nothing, and the batch goes on with the next action
C10_DispatchErrorNoted ==
    [][DispatchError =>
        /\ agents'[Top.agent].history # History(Top.agent)
        /\ Len(agents'[Top.agent].history) = Len(History(Top.agent)) + 1
        /\ LastOf(agents'[Top.agent].history).role = "assistant"
        /\ stack' = [stack EXCEPT ![Len(stack)] = Advance(@)]]_vars

----------------------------------------------------------------------------
(* Claims about errors at the model boundary *)

UserTurn(content) == [role |-> "user", content |-> content]

\* the request made in this step raised
RequestFailed == nreq' = nreq + 1 /\ response' = <<>>

\* C11: a request that raises ends the run that made it and every run
\* suspended below it on the stack: the exception reaches the outside caller,
\* the only trace it leaves is the user turn appended before the request, and
\* while no run is in progress nothing is dispatched and no request is made
C11_ProviderErrorPropagates ==
    /\ [][RequestFailed =>
            /\ stack' = <<>>
            /\ last_call'.status = "raised"
            /\ agents' = [agents EXCEPT ![Top.agent].history =
                              Append(@, UserTurn(Top.message))]
            /\ calls' = calls
            /\ lookups' = lookups
            /\ returned' = returned]_vars
    /\ [][stack = <<>> =>
            /\ nreq' = nreq
            /\ calls' = calls
            /\ lookups' = lookups
            /\ agents' = agents]_vars

\* the third request, made by a re-entered through b, raised: the run of a
\* called from outside ended with the exception, two runs deep below it
C11_Witness ==
    /\ last_call.op = "run_conversation"
    /\ last_call.agent = 1
    /\ last_call.status = "raised"
    /\ stack = <<>>
    /\ response = <<>>
    /\ nreq = 3
    /\ LastOf(History(2)) = Note(Content(RawReply(TRUE, <<CallAgent("a", "go")>>)))
    /\ LastOf(History(1)) = UserTurn("go")

----------------------------------------------------------------------------
(* Claims about the order of the messages *)

RECURSIVE NonSystem(_)
\* the messages whose role is not system, in order
NonSystem(msgs) ==
    IF msgs = <<>> THEN <<>>
    ELSE IF msgs[1].role = "system" THEN NonSystem(Tail(msgs))
    ELSE <<msgs[1]>> \o NonSystem(Tail(msgs))

IsPrefix(s, t) == Len(s) <= Len(t) /\ SubSeq(t, 1, Len(s)) = s

\* C12: in every step, of a history operation or of the agent loop, the
\* non-system messages of the free-standing history and of every agent's
\* history before the step are a prefix of those after it
C12_NonSystemAppendOnly ==
    [][/\ IsPrefix(NonSystem(messages), NonSystem(messages'))
       /\ \A i \in 1..Len(agents) :
             IsPrefix(NonSystem(agents[i].history),
                      NonSystem(agents'[i].history))]_vars

\* a was re-entered through b while its outer run was suspended, and later a
\* system message was set on a history that holds three other messages
C12_Witness ==
    /\ last_call.op = "add_system"
    /\ Len(messages) = 4
    /\ Len(NonSystem(messages)) = 3
    /\ nreq = 3
    /\ Len(History(1)) >= 5
    /\ History(1)[2] = UserTurn("task")
    /\ History(1)[4] = UserTurn("go")

----------------------------------------------------------------------------
(* Claims about the tree while agents are constructed between the runs *)

\* the agents constructed with agent i as parent
ConstructedUnder(i) == {j \in 1..Len(agents) : agents[j].parent = i}

\* the system message an agent with these children should hold
PeerList(i, children) ==
    [role |-> "system",
     content |-> SystemMessage(agents[i].role, ToolInfo(agents[i].tools),
                               ChildInfo(agents, children))]

\* a construction with parent p succeeded in this step
ChildRegistered(p) ==
    /\ Len(agents') = Len(agents) + 1
    /\ agents'[Len(agents')].parent = p

\* C13: every agent's history starts with its only system message, which
\* lists the agents constructed with it as parent, by name and description in
\* the order they were constructed; a construction under a parent appends the
\* child to the parent's children and rewrites that message in place, the
\* parent's other messages and their count staying as they were; so the
\* context of every request starts with the list of the children of that time
C13_SystemMessageListsChildren ==
    /\ [](\A i \in 1..Len(agents) :
            /\ agents[i].history # <<>>
            /\ SystemIndexes(agents[i].history, "system") = {1}
            /\ agents[i].history[1] = PeerList(i, agents[i].children)
            /\ {agents[i].children[k] : k \in 1..Len(agents[i].children)}
                  = ConstructedUnder(i)
            /\ \A k, l \in 1..Len(agents[i].children) :
                  k < l => agents[i].children[k] < agents[i].children[l])
    /\ [][\A p \in 1..Len(agents) : ChildRegistered(p) =>
            /\ agents'[p].children = Append(agents[p].children, Len(agents'))
            /\ Len(agents'[p].history) = Len(agents[p].history)
            /\ Tail(agents'[p].history) = Tail(agents[p].history)
            /\ agents'[p].history[1].content # agents[p].history[1].content]_vars
    /\ [][nreq' = nreq + 1 =>
            agents'[Top.agent].history[1] =
                PeerList(Top.agent, agents[Top.agent].children)]_vars

\* c was constructed under a after b, when the history of a already held
\* the messages of a run: the system message of a lists both, in place
C13_Witness ==
    /\ last_call.op = "Agent"
    /\ last_call.status = "ok"
    /\ last_call.agent = 1
    /\ Len(agents) = 3
    /\ agents[1].children = <<2, 3>>
    /\ Len(History(1)) = 3
    /\ History(1)[2] = UserTurn("task")
    /\ History(1)[1].content =
          "Your role is helper. You have access to the following Tools: none. "
              \o ToolInstructions \o "Peer Agents: b (worker), c (worker)."

----------------------------------------------------------------------------
(* Claims about what a tool invocation leaves in the history *)

\* the use_tool action at hand invokes its tool and the tool does not raise
Invokes ==
    /\ OwnedTool
    /\ LET tool == get(agents[Top.agent].tools, Current.tool[1].name)
       IN  /\ Keys(Current.tool[1].params) = Expected(tool)
           /\ ~ToolCall(tool, Current.tool[1].params).raised

\* C14: a tool invocation that does not raise appends exactly one message,
\* tagged with the name of the tool: the note that the tool gave no output
\* when it returned None or an empty result, the result itself otherwise
C14_EmptyResultNoted ==
    [][Invokes =>
        LET name == Current.tool[1].name
            r == ToolCall(get(agents[Top.agent].tools, name),
                          Current.tool[1].params)
        IN  agents'[Top.agent].history =
                Append(History(Top.agent),
                       [role |-> "function", name |-> name,
                        content |-> IF r.isNone \/ r.result = ""
                                    THEN NoOutput ELSE r.result])]_vars

\* the JSON reply that answers a request in this step holds a use_tool action
\* whose params are not a JSON object
BadParams ==
    \E a \in AnsweredActions :
        a.type = "use_tool" /\ a.tool # <<>> /\ a.tool[1].params.kind # "object"

\* C15: a reply with a use_tool action whose params are not a JSON object is
\* handed to dispatch all the same: the run goes on with the batch of the
\* reply, nothing is raised and no tool has been invoked for it
C15_BadParamsBatchGoesOn ==
    [][BadParams =>
        /\ stack' # <<>>
        /\ stack'[Len(stack')].pc = "act"
        /\ Len(stack'[Len(stack')].batch) = Len(response'[1].actions)
        /\ last_call'.status # "raised"
        /\ calls' = calls]_vars

----------------------------------------------------------------------------
(* Claims about the order of dispatch and of the entries of a history *)

\* the raw action a decoded action came from, and the text of the reply a
\* decoded batch came from
RawOf(a) ==
    RawAction(a.type, a.agent,
              IF a.tool = <<>> THEN <<>>
              ELSE RawTool(a.tool[1].name, JsonObject(a.tool[1].params)),
              a.message)

ReplyText(batch) ==
    Content(RawReply(TRUE, [i \in 1..Len(batch) |-> RawOf(batch[i])]))

\* the texts a delegated run may return
ReturnTexts == {"m1", "m2"}

RECURSIVE Layout(_, _, _, _)
\* entries are what the actions acts of agent self left in its history, in
\* order: nothing for a respond, one entry for a use_tool, nothing or the
\* tagged text for a call_agent, and nothing yet for a call_agent whose
\* target is still running
Layout(entries, acts, self, running) ==
    IF acts = <<>> THEN entries = <<>>
    ELSE LET a == acts[1]
             rest == Tail(acts)
         IN  CASE a.type = "respond" -> Layout(entries, rest, self, running)
               [] a.type = "use_tool" ->
                    /\ entries # <<>>
                    /\ \E r \in use_tool(self, agents[self], a) :
                          entries[1] = LastOf(r.history)
                    /\ Layout(Tail(entries), rest, self, running)
               [] OTHER ->
                    IF rest = <<>> /\ running THEN entries = <<>>
                    ELSE \/ Layout(entries, rest, self, running)
                         \/ /\ entries # <<>>
                            /\ \E v \in ReturnTexts :
                                  entries[1] = Note(a.agent \o ": " \o v)
                            /\ Layout(Tail(entries), rest, self, running)

\* the history of the agent of frame k ends with the user turn of the frame's
\* last request, the raw reply, and what the actions dispatched since left
InOrder(k) ==
    LET f == stack[k]
        h == History(f.agent)
    IN  \E p \in 1..(Len(h) - 1) :
            /\ h[p].role = "user"
            /\ f.pc = "act" => h[p] = UserTurn(f.message)
            /\ h[p + 1] = Note(ReplyText(f.batch))
            /\ Layout(SubSeq(h, p + 2, Len(h)), f.dispatched, f.agent,
                      k < Len(stack))

\* C16: the actions dispatched are a prefix of the batch and each dispatch
\* takes the next action of the list; the history of a running agent ends
\* with the user turn, the raw reply and the entries of the actions in the
\* order of the list; a request appends the user turn (the continue prompt
\* after the first request) and the reply after all that
C16_ListOrder ==
    /\ [](\A k \in 1..Len(stack) :
            /\ IsPrefix(stack[k].dispatched, stack[k].batch)
            /\ stack[k].requests >= 1 => InOrder(k))
    /\ [][(Acting /\ Len(Top.dispatched) < Len(Top.batch)) =>
            stack'[Len(stack)].dispatched =
                Append(Top.dispatched, Top.batch[Len(Top.dispatched) + 1])]_vars
    /\ [][(nreq' = nreq + 1 /\ response' # <<>>) =>
            /\ Top.requests >= 1 => Top.message = "Continue decision making."
            /\ LET h == History(Top.agent)
                   hh == agents'[Top.agent].history
               IN  /\ IsPrefix(h, hh)
                   /\ hh[Len(h) + 1] = UserTurn(Top.message)
                   /\ LastOf(hh) = Note(Content(response'[1]))]_vars

\* a delegated to b and then used a tool: the text of b comes before the
\* result of the tool in the history of a
C16_Witness ==
    /\ Acting
    /\ Len(stack) = 1
    /\ Top.agent = 1
    /\ Top.dispatched = <<ActionModel(CallAgent("b", "go")),
                          ActionModel(UseTool("search", << <<"q", "x">> >>))>>
    /\ SubSeq(History(1), 2, Len(History(1))) =
          <<UserTurn("task"),
            Note(ReplyText(Top.batch)),
            Note("b: m1"),
            [role |-> "function", content |-> "found x", name |-> "search"]>>

----------------------------------------------------------------------------
(* Claims about the end of a run *)

ContinuePrompt == "Continue decision making."

HasRespond(batch) == RespondIndexes(batch) # {}

\* C17: a run returns only when its last batch is done and holds a respond
\* action, and does return then; after a batch without respond it appends
\* nothing, turns to the continue prompt, and its next step is one request
\* that appends that prompt as the user turn; a run whose model answers a
\* respond in the end returns, whatever the number of batches before
C17_ReturnsIffRespond ==
    /\ [][Len(stack') < Len(stack) =>
            /\ Len(stack') = Len(stack) - 1
            /\ Top.dispatched = Top.batch
            /\ HasRespond(Top.batch)
            /\ returned'.frame = Top]_vars
    /\ [][(BatchDone /\ HasRespond(Top.batch)) =>
            Len(stack') = Len(stack) - 1]_vars
    /\ [][(BatchDone /\ ~HasRespond(Top.batch)) =>
            /\ stack' = [stack EXCEPT ![Len(stack)] =
                            [@ EXCEPT !.pc = "send", !.message = ContinuePrompt]]
            /\ agents' = agents
            /\ nreq' = nreq]_vars
    /\ [][(stack # <<>> /\ Top.pc = "send" /\ Top.requests >= 1) =>
            /\ ~HasRespond(Top.batch)
            /\ nreq' = nreq + 1
            /\ stack'[Len(stack)].requests = Top.requests + 1
            /\ agents'[Top.agent].history =
                  History(Top.agent)
                      \o <<UserTurn(ContinuePrompt),
                           Note(Content(response'[1]))>>]_vars
    /\ (last_call.status = "running") ~> (last_call.status = "ok")

\* a run returned at its third request, after two batches without respond
C17_Witness ==
    /\ last_call.op = "run_conversation"
    /\ last_call.status = "ok"
    /\ stack = <<>>
    /\ returned.frame.requests = 3
    /\ returned.frame.message = ContinuePrompt
    /\ returned.value = "m1"

----------------------------------------------------------------------------
(* Claims about the decoded response *)

\* C18: no run ever processes an empty batch: a reply whose actions array is
\* empty is not handed to process_actions
C18_NoEmptyBatch ==
    \A k \in 1..Len(stack) : stack[k].pc = "act" => stack[k].batch # <<>>

----------------------------------------------------------------------------
(* Claims about last_response *)

\* agent i holds the message its run returned last, and this step is not the
\* dispatch of a respond action by agent i
KeepsAnswer(i) ==
    /\ returned.frame.agent = i
    /\ returned.value # NONE
    /\ agents[i].last_response = returned.value
    /\ ~(Dispatching("respond") /\ Top.agent = i)

\* C19: the message a run of an agent returned stays in last_response until
\* the agent dispatches another respond action: no other step changes it
C19_LastResponseKept ==
    [][\A i \in 1..Len(agents) :
          KeepsAnswer(i) => agents'[i].last_response = agents[i].last_response]_vars

----------------------------------------------------------------------------
(* Claims about the objects delegation reaches *)

\* the call_agent action at hand starts a run in this step
Delegates == Dispatching("call_agent") /\ Len(stack') = Len(stack) + 1

\* the parent object and the objects of the children list
NeighbourObjects(self) ==
    {agents[self].parent}
        \cup {agents[self].children[k] : k \in 1..Len(agents[self].children)}

\* C20: the agent object on which a call_agent action starts a run is the
\* parent of the caller or one of the objects of its children list
C20_DelegatesToNeighbourObjects ==
    [][Delegates =>
        /\ stack'[Len(stack')].agent # 0
        /\ stack'[Len(stack')].agent \in NeighbourObjects(Top.agent)]_vars

----------------------------------------------------------------------------
(* Claims about the user turns and the requests *)

RECURSIVE UserCount(_)
\* the number of user messages of a history
UserCount(msgs) ==
    IF msgs = <<>> THEN 0
    ELSE (IF msgs[1].role = "user" THEN 1 ELSE 0) + UserCount(Tail(msgs))

RECURSIVE TotalUsers(_)
\* the number of user messages of the histories of the first n agents
TotalUsers(n) ==
    IF n = 0 THEN 0 ELSE UserCount(History(n)) + TotalUsers(n - 1)

\* C21: a request is made with the history of the agent extended by the user
\* turn of the message at hand, so the context ends with a user message, also
\* in a run that re-enters an agent whose outer run is suspended; a request
\* adds one user message to the history of the agent that makes it and no
\* other step adds one to any history, so user messages and requests are
\* equal in number
C21_UserTurnBeforeEachRequest ==
    /\ [][nreq' = nreq + 1 =>
            LET h == History(Top.agent)
                context == SubSeq(agents'[Top.agent].history, 1, Len(h) + 1)
            IN  /\ Len(agents'[Top.agent].history) >= Len(h) + 1
                /\ context = Append(h, UserTurn(Top.message))
                /\ LastOf(context).role = "user"]_vars
    /\ [][\A i \in 1..Len(agents) :
            UserCount(agents'[i].history) =
                UserCount(History(i))
                    + (IF nreq' = nreq + 1 /\ i = Top.agent THEN 1 ELSE 0)]_vars
    /\ [](TotalUsers(Len(agents)) = nreq)

\* a was re-entered through b while its outer run was suspended: its history
\* holds the user turns of both of its requests
C21_Witness ==
    /\ Len(stack) = 3
    /\ stack[1].agent = 1
    /\ stack[3].agent = 1
    /\ stack[3].requests = 1
    /\ nreq = 3
    /\ UserCount(History(1)) = 2
    /\ History(1)[4] = UserTurn("go")
    /\ UserCount(History(2)) = 1

----------------------------------------------------------------------------
(* Claims about a construction that is refused *)

\* a construction under a name that is registered was tried in this step
RefusedConstruction ==
    /\ last_call'.op = "Agent"
    /\ last_call' # last_call
    /\ last_call'.name \in Keys(manager)

\* C22: a construction under a registered name raises and leaves the
\* registry, every children list and every history (so the system message of
\* the parent) as they were; a children list changes only by a construction
\* that succeeds, and the child is then registered under its name
C22_RefusedConstructionLeavesTree ==
    /\ [][RefusedConstruction =>
            /\ last_call'.status = "raised"
            /\ manager' = manager
            /\ agents' = agents]_vars
    /\ [][\A p \in 1..Len(agents) :
            agents'[p].children # agents[p].children =>
                /\ ChildRegistered(p)
                /\ last_call'.status = "ok"
                /\ agents'[p].children = Append(agents[p].children, Len(agents'))
                /\ last_call'.name \notin Keys(manager)
                /\ get(manager', agents'[Len(agents')].name) = Len(agents')]_vars

\* a second b under a was refused: a still has the one child and the
\* registry maps b to it
C22_Witness ==
    /\ last_call.op = "Agent"
    /\ last_call.status = "raised"
    /\ last_call.name = "b"
    /\ last_call.agent = 1
    /\ Len(agents) = 2
    /\ agents[1].children = <<2>>
    /\ manager = << <<"a", 1>>, <<"b", 2>> >>

=============================================================================
